---- MODULE Spec2Model ----
(***************************************************************************)
(* Model of gaussian-splatting-lightning:                                  *)
(*   - GaussianSplatting.training_step (internal/gaussian_splatting.py):   *)
(*     one training step as a sequence of phases, with the Lightning       *)
(*     global-step counter, the density-control schedule, the checkpoint   *)
(*     save and the learning-rate schedules;                               *)
(*   - GSplatAppearanceEmbeddingRendererModule                              *)
(*     (internal/renderers/gsplat_appearance_embedding_renderer.py):       *)
(*     sizing of the embedding table, the two LambdaLR schedules and the   *)
(*     warm-up switch of training_forward / get_rgbs.                      *)
(***************************************************************************)
EXTENDS Integers, Sequences, FiniteSets, TLC

\* ------------------------------------------------------------------ bounds
\* Training steps explored under Spec.
MaxStep == 8
\* Training steps explored under SpecSH (two SH escalation points).
MaxStepSH == 2000
\* Training steps explored under SpecFrame (density control around the first
\* SH escalation point).
MaxStepFrame == 1002
\* Largest primitive count grow/prune may leave behind.
MaxPrims == 2

\* ------------------------------------------------------- program constants
\* `global_step % 1000 == 0`
SHInterval == 1000
\* `size_threshold = 20 if ... else None`
SizeThreshold == 20

\* ------------------------------------------------------------------- state
VARIABLES
    hparams,              \* self.hparams: the run's configuration
    trainer_global_step,  \* self.trainer.global_step (Lightning's counter)
    global_step,          \* the local `global_step` of the running training_step
    pc,                   \* position inside training_step ("idle" between steps)
    ops,                  \* operations executed so far by the running/last step
    hooks,                \* _on_after_step hook bound to each LightningOptimizer
    gaussians,            \* self.gaussian_model (abstract primitive set)
    rendered,             \* the primitive set as it was handed to render()
    written,              \* what save_gaussian_to_ply put on its output path in
                          \*   this step (0 or 1 file): iteration label, content
    ply,                  \* the files under output_path/point_cloud: iteration
                          \*   label, ".tmp" or final name, completely written?, content
    densify_calls,        \* densify_and_prune calls of this step: step, size_threshold
    n_steps,              \* number of training_step calls started so far
    xyz_lr_step,          \* argument of the last update_learning_rate call
    appearance_sched_epoch, \* last_epoch of appearance_scheduler
    config,               \* renderer: self.config (model and optimization parts)
    model,                \* renderer: self.model, {} until allocated
    sizing,               \* renderer: how the table size came about (history):
                          \*   the size configured at first, the allocations made,
                          \*   every derivation from the data, the last restore
    embedding_scheduler,  \* renderer: LambdaLR of the embedding group, {} until created
    network_scheduler,    \* renderer: LambdaLR of the network group, {} until created
    last_forward,         \* renderer: what the last training_forward did, {} if none
    setup_error,          \* renderer: the exception training_setup raised, {} if none
    loss_in,              \* loss: the batch's gt_image and masked_pixels, the render
    loss_out,             \* loss: gt_image after the copy and l1_loss, {} before
    parser_in,            \* get_outputs: the sparse model's camera model per image
                          \*   (sorted by image id), eval_step, the ranks running
    points3D,             \* get_outputs: points3D.ply.tmp and points3D.ply, each
                          \*   "absent", "partial" or "complete"
    rank_pc,              \* get_outputs: where each rank's call stands
    parse_idx,            \* get_outputs: per rank, the images appended to the lists
    ply_read,             \* get_outputs: per rank, what fetch_ply found ({} before)
    outputs               \* get_outputs: per rank, the DataParserOutputs ({} before)

trainVars == <<hparams, trainer_global_step, global_step, pc, ops, hooks, gaussians,
               rendered, written, ply, densify_calls, n_steps, xyz_lr_step,
               appearance_sched_epoch>>

rendererVars == <<config, model, sizing, embedding_scheduler, network_scheduler,
                  last_forward, setup_error>>

lossVars == <<loss_in, loss_out>>

parserVars == <<parser_in, points3D, rank_pc, parse_idx, ply_read, outputs>>

vars == <<trainVars, rendererVars, lossVars, parserVars>>

\* ----------------------------------------------------------- configuration
\* Values the hyper-parameters are drawn from.  Colour components are 0 or 1
\* (1 is the float 1.0 the code compares against).
DensifyFromIters == {1, 2}
DensifyUntilIters == {4, 6}
DensificationIntervals == {1, 2}
OpacityResetIntervals == {2, 3}
BackgroundColors == {<<0, 0, 0>>, <<1, 1, 1>>, <<1, 1, 0>>}
SaveIterationSets == {{}, {2}, {3, 5}}
GlobalRanks == {0, 1}
EvalSteps == {1, 2}

HParams ==
    [densify_from_iter : DensifyFromIters,
     densify_until_iter : DensifyUntilIters,
     densification_interval : DensificationIntervals,
     opacity_reset_interval : OpacityResetIntervals,
     background_color : BackgroundColors,
     save_iterations : SaveIterationSets,
     global_rank : GlobalRanks,
     sh_degree : {1}]

\* The configuration of the SH-escalation runs: density control is over after
\* the first step, the first escalation step is saved.
HParamsSH ==
    [densify_from_iter : {1},
     densify_until_iter : {1},
     densification_interval : {1},
     opacity_reset_interval : {2},
     background_color : {<<0, 0, 0>>},
     save_iterations : {{SHInterval}},
     global_rank : {0},
     sh_degree : {0, 1}]

\* The configuration of the runs in which the density-control window lies
\* around the first SH escalation step, which is also saved and resets the
\* opacities; with densification_interval 3 that step does not grow/prune.
HParamsFrame ==
    [densify_from_iter : {SHInterval - 2},
     densify_until_iter : {SHInterval + 2},
     densification_interval : {1, 3},
     opacity_reset_interval : {SHInterval \div 2},
     background_color : {<<0, 0, 0>>},
     save_iterations : {{SHInterval}},
     global_rank : {0},
     sh_degree : {0, 1}]

\* GaussianModel(sh_degree=...) after create_from_pcd and training_setup: one
\* primitive, degree 0.  max_radii2D, xyz_gradient_accum and denom are the
\* lengths of the per-primitive auxiliary arrays.
InitialGaussians(h) ==
    [n |-> 1, version |-> 0, opacity_at_floor |-> FALSE,
     active_sh_degree |-> 0, max_sh_degree |-> h.sh_degree,
     max_radii2D |-> 1, xyz_gradient_accum |-> 1, denom |-> 1]

\* ------------------------------------------------- training_step: helpers
\* `global_step = self.trainer.global_step + 1`
GlobalStepOf(tgs) == tgs + 1

\* Lightning's manual-optimization loop binds, at the start of every batch, the
\* same _on_after_step to every LightningOptimizer: it advances global_step.
LightningRunStart == [gaussian |-> "progress", appearance |-> "progress"]

\* Mutant: the override of the appearance optimizer's hooks is forgotten.
OverrideHooksMissing(h) == h

\* `appearance_optimizer._on_before_step/_on_after_step = lambda: profiler...`
OverrideHooks(h) == [h EXCEPT !.appearance = "profiler"]

\* LightningOptimizer.step(): the bound _on_after_step runs after the step.
AfterStep(hook, tgs) == IF hook = "progress" THEN tgs + 1 ELSE tgs

\* Mutant: escalation one step late.
ShouldOneUpLate(s) == (s - 1) % SHInterval = 0

\* `if global_step % 1000 == 0`
ShouldOneUp(s) == s % SHInterval = 0

\* GaussianModel.oneupSHdegree: one degree up, capped at max_sh_degree.
OneupSHdegree(g) ==
    IF g.active_sh_degree < g.max_sh_degree
    THEN [g EXCEPT !.active_sh_degree = @ + 1]
    ELSE g

\* `if global_step in self.hparams["save_iterations"]`
IsSavePoint(s) == s \in hparams.save_iterations

\* Mutant: the window includes densify_until_iter itself.
InDensifyWindowInclusive(s) == s <= hparams.densify_until_iter

\* `if global_step < ...densify_until_iter`
InDensifyWindow(s) == s < hparams.densify_until_iter

\* `if global_step > densify_from_iter and global_step % densification_interval == 0`
ShouldDensify(s) ==
    /\ s > hparams.densify_from_iter
    /\ s % hparams.densification_interval = 0

\* Mutant: the threshold already applies at the reset boundary itself.
SizeThresholdForInclusive(s) ==
    IF s >= hparams.opacity_reset_interval THEN {SizeThreshold} ELSE {}

\* `size_threshold = 20 if global_step > opacity_reset_interval else None`
\* (None is the empty set, a value v is {v}).
SizeThresholdFor(s) ==
    IF s > hparams.opacity_reset_interval THEN {SizeThreshold} ELSE {}

\* Mutant: torch.any instead of torch.all.
IsPureWhiteAny(bg) == \E i \in 1..3 : bg[i] = 1

\* `torch.all(self.background_color == 1.)`
IsPureWhite(bg) == \A i \in 1..3 : bg[i] = 1

\* `global_step % opacity_reset_interval == 0 or (white and global_step == densify_from_iter)`
ShouldResetOpacity(s) ==
    \/ s % hparams.opacity_reset_interval = 0
    \/ (IsPureWhite(hparams.background_color) /\ s = hparams.densify_from_iter)

\* The density-control block: the calls it makes at step s, in order.
DensityOps(s) ==
    IF InDensifyWindow(s)
    THEN <<"stats">>
         \o (IF ShouldDensify(s) THEN <<"densify_and_prune">> ELSE <<>>)
         \o (IF ShouldResetOpacity(s) THEN <<"reset_opacity">> ELSE <<>>)
    ELSE <<>>

\* Mutant: the visible entries are assigned to the whole array.
UpdateMaxRadiiUnindexed(g, vis_len, visible) == [g EXCEPT !.max_radii2D = visible]

\* `gaussians.max_radii2D[visibility_filter] = torch.max(
\*      gaussians.max_radii2D[visibility_filter], radii[visibility_filter])`:
\* an assignment into the entries the mask selects; the array keeps its length.
UpdateMaxRadii(g, vis_len, visible) == [g EXCEPT !.max_radii2D = @]

\* The boolean mask of the render indexes an array of its own length only.
MaskIndexes(g, vis_len) ==
    /\ g.max_radii2D = vis_len
    /\ g.xyz_gradient_accum = vis_len
    /\ g.denom = vis_len

\* GaussianModel.add_densification_stats: accumulates into the selected
\* entries of xyz_gradient_accum and denom.
AddDensificationStats(g) == [g EXCEPT !.xyz_gradient_accum = @, !.denom = @]

\* GaussianModel.densify_and_prune: clone/split/prune leave some count behind
\* and the auxiliary arrays are rebuilt for it.
DensifyAndPrune(g, n) ==
    [g EXCEPT !.n = n, !.max_radii2D = n, !.xyz_gradient_accum = n, !.denom = n]

\* GaussianModel.reset_opacity: every opacity is set to the floor.
ResetOpacity(g) == [g EXCEPT !.opacity_at_floor = TRUE]

\* Mutant: the optimizer step also changes the number of primitives.
GaussianOptimizerStepResizing(g) ==
    [g EXCEPT !.version = @ + 1, !.opacity_at_floor = FALSE,
              !.n = (@ % MaxPrims) + 1]

\* optimizer.step() on the primitive parameters: every parameter moves.
GaussianOptimizerStep(g) ==
    [g EXCEPT !.version = @ + 1, !.opacity_at_floor = FALSE]

\* `if self.trainer.global_rank != 0: return`
SavesOnThisRank == hparams.global_rank = 0

\* `"iteration_{}".format(self.trainer.global_step)`
IterationLabel(tgs) == tgs

\* `output_path = os.path.join(output_dir, "point_cloud.ply")`
OutputPath(tgs) == [iteration |-> IterationLabel(tgs), tmp |-> FALSE]

\* Mutant: the primitive set is written straight to the output path.
PlyWritePathFinal(tgs) == [iteration |-> IterationLabel(tgs), tmp |-> FALSE]

\* `self.gaussian_model.save_ply(output_path + ".tmp")`: the path written.
PlyWritePath(tgs) == [iteration |-> IterationLabel(tgs), tmp |-> TRUE]

\* The files of a directory tree at a path (none or one).
FilesAt(fs, path) == {f \in fs : f.iteration = path.iteration /\ f.tmp = path.tmp}

\* save_ply(path): the file is created and filled; a failure leaves it
\* partially written, or happens before it is created.
SavePly(fs, path, g, outcome) ==
    IF outcome = "not_created"
    THEN fs
    ELSE (fs \ FilesAt(fs, path))
         \cup {[iteration |-> path.iteration, tmp |-> path.tmp,
                 complete |-> (outcome = "ok"), content |-> g]}

\* os.rename(src, dst): dst is replaced by src's file in one step.
Rename(fs, src, dst) ==
    (fs \ (FilesAt(fs, src) \cup FilesAt(fs, dst)))
    \cup {[f EXCEPT !.tmp = dst.tmp] : f \in FilesAt(fs, src)}

\* A checkpoint an earlier run left behind at the place a save of this run
\* will go to, or none.
InitialPlyDirs(h) ==
    {{}} \cup
    {{[iteration |-> IterationLabel(s - 1), tmp |-> FALSE, complete |-> TRUE,
       content |-> InitialGaussians(h)]} : s \in h.save_iterations}

\* Mutant: the save is made after density control.
NextPhaseSaveLate(p) ==
    CASE p = "idle" -> "sh"
      [] p = "sh" -> "render"
      [] p = "render" -> "loss"
      [] p = "loss" -> "zero_grad"
      [] p = "zero_grad" -> "backward"
      [] p = "backward" -> "density"
      [] p = "density" -> "save"
      [] p = "save" -> "gaussian_step"
      [] p = "gaussian_step" -> "appearance_step"
      [] p = "appearance_step" -> "update_lr"
      [] p = "update_lr" -> "scheduler_step"
      [] p = "scheduler_step" -> "idle"

\* Mutant: the optimizer-level schedule is stepped before update_learning_rate.
NextPhaseSchedulerFirst(p) ==
    CASE p = "idle" -> "sh"
      [] p = "sh" -> "render"
      [] p = "render" -> "loss"
      [] p = "loss" -> "zero_grad"
      [] p = "zero_grad" -> "backward"
      [] p = "backward" -> "save"
      [] p = "save" -> "density"
      [] p = "density" -> "gaussian_step"
      [] p = "gaussian_step" -> "appearance_step"
      [] p = "appearance_step" -> "scheduler_step"
      [] p = "scheduler_step" -> "update_lr"
      [] p = "update_lr" -> "idle"

\* The statement order of training_step.
NextPhase(p) ==
    CASE p = "idle" -> "sh"
      [] p = "sh" -> "render"
      [] p = "render" -> "loss"
      [] p = "loss" -> "zero_grad"
      [] p = "zero_grad" -> "backward"
      [] p = "backward" -> "save"
      [] p = "save" -> "density"
      [] p = "density" -> "gaussian_step"
      [] p = "gaussian_step" -> "appearance_step"
      [] p = "appearance_step" -> "update_lr"
      [] p = "update_lr" -> "scheduler_step"
      [] p = "scheduler_step" -> "idle"

\* ------------------------------------------------- training_step: actions
\* Entry of training_step: the step number, the optimizers and their hooks.
BeginStep(maxstep) ==
    /\ pc = "idle"
    /\ trainer_global_step < maxstep
    /\ global_step' = GlobalStepOf(trainer_global_step)
    /\ hooks' = OverrideHooks(LightningRunStart)
    /\ ops' = <<>>
    /\ written' = {}
    /\ densify_calls' = {}
    /\ n_steps' = n_steps + 1
    /\ pc' = NextPhase(pc)
    /\ UNCHANGED <<hparams, trainer_global_step, gaussians, rendered, ply,
                   xyz_lr_step, appearance_sched_epoch,
                   rendererVars, lossVars, parserVars>>

\* SH escalation.
OneUpSH ==
    /\ pc = "sh"
    /\ IF ShouldOneUp(global_step)
       THEN /\ gaussians' = OneupSHdegree(gaussians)
            /\ ops' = Append(ops, "oneupSHdegree")
       ELSE UNCHANGED <<gaussians, ops>>
    /\ pc' = NextPhase(pc)
    /\ UNCHANGED <<hparams, trainer_global_step, global_step, hooks, rendered,
                   written, ply, densify_calls, n_steps, xyz_lr_step,
                   appearance_sched_epoch,
                   rendererVars, lossVars, parserVars>>

\* `outputs = self(camera)`
Forward ==
    /\ pc = "render"
    /\ rendered' = gaussians
    /\ ops' = Append(ops, "render")
    /\ pc' = NextPhase(pc)
    /\ UNCHANGED <<hparams, trainer_global_step, global_step, hooks, gaussians,
                   written, ply, densify_calls, n_steps, xyz_lr_step,
                   appearance_sched_epoch,
                   rendererVars, lossVars, parserVars>>

\* l1, ssim and the combined loss.
Loss ==
    /\ pc = "loss"
    /\ ops' = Append(ops, "loss")
    /\ pc' = NextPhase(pc)
    /\ UNCHANGED <<hparams, trainer_global_step, global_step, hooks, gaussians,
                   rendered, written, ply, densify_calls, n_steps, xyz_lr_step,
                   appearance_sched_epoch,
                   rendererVars, lossVars, parserVars>>

\* zero_grad of both optimizers.
ZeroGrad ==
    /\ pc = "zero_grad"
    /\ ops' = ops \o <<"zero_grad_gaussian", "zero_grad_appearance">>
    /\ pc' = NextPhase(pc)
    /\ UNCHANGED <<hparams, trainer_global_step, global_step, hooks, gaussians,
                   rendered, written, ply, densify_calls, n_steps, xyz_lr_step,
                   appearance_sched_epoch,
                   rendererVars, lossVars, parserVars>>

\* `self.manual_backward(loss)`: gradients only, no parameter changes.
Backward ==
    /\ pc = "backward"
    /\ ops' = Append(ops, "backward")
    /\ pc' = NextPhase(pc)
    /\ UNCHANGED <<hparams, trainer_global_step, global_step, hooks, gaussians,
                   rendered, written, ply, densify_calls, n_steps, xyz_lr_step,
                   appearance_sched_epoch,
                   rendererVars, lossVars, parserVars>>

\* "save before densification": save_gaussian_to_ply up to and including
\* save_ply.  An exception of save_ply leaves training_step ("failed").
Save ==
    /\ pc = "save"
    /\ IF ~IsSavePoint(global_step)
       THEN /\ pc' = NextPhase(pc)
            /\ UNCHANGED <<ply, ops>>
       ELSE IF ~SavesOnThisRank
       THEN /\ pc' = NextPhase(pc)
            /\ ops' = Append(ops, "save")
            /\ UNCHANGED ply
       ELSE \E outcome \in {"ok", "partial", "not_created"} :
               /\ ply' = SavePly(ply, PlyWritePath(trainer_global_step),
                                 gaussians, outcome)
               /\ ops' = Append(ops, "save")
               /\ pc' = IF outcome = "ok" THEN "rename" ELSE "failed"
    /\ UNCHANGED <<hparams, trainer_global_step, global_step, hooks, gaussians,
                   rendered, written, densify_calls, n_steps, xyz_lr_step,
                   appearance_sched_epoch,
                   rendererVars, lossVars, parserVars>>

\* `os.rename(output_path + ".tmp", output_path)`, the end of
\* save_gaussian_to_ply.  Without the ".tmp" file the rename raises.
SaveRename ==
    /\ pc = "rename"
    /\ LET src == [iteration |-> IterationLabel(trainer_global_step), tmp |-> TRUE]
           dst == OutputPath(trainer_global_step)
       IN  IF FilesAt(ply, src) = {}
           THEN /\ pc' = "failed"
                /\ UNCHANGED <<ply, written>>
           ELSE /\ ply' = Rename(ply, src, dst)
                /\ written' = {[iteration |-> f.iteration, content |-> f.content] :
                                  f \in FilesAt(ply', dst)}
                /\ pc' = NextPhase("save")
    /\ UNCHANGED <<hparams, trainer_global_step, global_step, hooks, gaussians,
                   rendered, ops, densify_calls, n_steps, xyz_lr_step,
                   appearance_sched_epoch,
                   rendererVars, lossVars, parserVars>>

\* The `with torch.no_grad()` block: statistics, grow/prune, opacity reset.
DensityControl ==
    /\ pc = "density"
    /\ LET s == global_step
           stats == InDensifyWindow(s)
           grow == InDensifyWindow(s) /\ ShouldDensify(s)
           reset == InDensifyWindow(s) /\ ShouldResetOpacity(s)
       IN  IF stats /\ ~MaskIndexes(gaussians, rendered.n)
           THEN /\ pc' = "index_error"
                /\ UNCHANGED <<gaussians, densify_calls, ops>>
           ELSE /\ \E visible \in 0..rendered.n :
                   \E n \in (IF grow THEN 1..MaxPrims ELSE {gaussians.n}) :
                     LET g0 == IF stats
                               THEN AddDensificationStats(
                                       UpdateMaxRadii(gaussians, rendered.n, visible))
                               ELSE gaussians
                         g1 == IF grow THEN DensifyAndPrune(g0, n) ELSE g0
                     IN  gaussians' = IF reset THEN ResetOpacity(g1) ELSE g1
                /\ densify_calls' =
                      IF grow
                      THEN {[step |-> s, size_threshold |-> SizeThresholdFor(s)]}
                      ELSE densify_calls
                /\ ops' = ops \o DensityOps(s)
                /\ pc' = NextPhase(pc)
    /\ UNCHANGED <<hparams, trainer_global_step, global_step, hooks, rendered,
                   written, ply, n_steps, xyz_lr_step, appearance_sched_epoch,
                   rendererVars, lossVars, parserVars>>

\* `gaussian_optimizer.step()`
GaussianStep ==
    /\ pc = "gaussian_step"
    /\ gaussians' = GaussianOptimizerStep(gaussians)
    /\ trainer_global_step' = AfterStep(hooks.gaussian, trainer_global_step)
    /\ ops' = Append(ops, "gaussian_step")
    /\ pc' = NextPhase(pc)
    /\ UNCHANGED <<hparams, global_step, hooks, rendered, written, ply,
                   densify_calls, n_steps, xyz_lr_step, appearance_sched_epoch,
                   rendererVars, lossVars, parserVars>>

\* `appearance_optimizer.step()`
AppearanceStep ==
    /\ pc = "appearance_step"
    /\ trainer_global_step' = AfterStep(hooks.appearance, trainer_global_step)
    /\ ops' = Append(ops, "appearance_step")
    /\ pc' = NextPhase(pc)
    /\ UNCHANGED <<hparams, global_step, hooks, gaussians, rendered, written,
                   ply, densify_calls, n_steps, xyz_lr_step,
                   appearance_sched_epoch,
                   rendererVars, lossVars, parserVars>>

\* `self.gaussian_model.update_learning_rate(global_step)`
UpdateLearningRate ==
    /\ pc = "update_lr"
    /\ xyz_lr_step' = global_step
    /\ ops' = Append(ops, "update_learning_rate")
    /\ pc' = NextPhase(pc)
    /\ UNCHANGED <<hparams, trainer_global_step, global_step, hooks, gaussians,
                   rendered, written, ply, densify_calls, n_steps,
                   appearance_sched_epoch,
                   rendererVars, lossVars, parserVars>>

\* `appearance_scheduler.step()`
SchedulerStep ==
    /\ pc = "scheduler_step"
    /\ appearance_sched_epoch' = appearance_sched_epoch + 1
    /\ ops' = Append(ops, "appearance_scheduler_step")
    /\ pc' = NextPhase(pc)
    /\ UNCHANGED <<hparams, trainer_global_step, global_step, hooks, gaussians,
                   rendered, written, ply, densify_calls, n_steps, xyz_lr_step,
                   rendererVars, lossVars, parserVars>>

TrainingStep(maxstep) ==
    \/ BeginStep(maxstep)
    \/ OneUpSH
    \/ Forward
    \/ Loss
    \/ ZeroGrad
    \/ Backward
    \/ Save
    \/ SaveRename
    \/ DensityControl
    \/ GaussianStep
    \/ AppearanceStep
    \/ UpdateLearningRate
    \/ SchedulerStep

\* ------------------------------------------------------ exact arithmetic
\* Rates are exact rationals <<numerator, denominator>>, denominator > 0.
Abs(x) == IF x < 0 THEN -x ELSE x

RECURSIVE Gcd(_, _)
Gcd(a, b) == IF b = 0 THEN a ELSE Gcd(b, a % b)

\* The fraction n/d (d # 0) in lowest terms with a positive denominator.
Frac(n, d) ==
    LET g == Gcd(Abs(n), Abs(d))
        sgn == IF d < 0 THEN -1 ELSE 1
    IN  <<(sgn * n) \div g, (sgn * d) \div g>>

RatLess(x, y) == x[1] * y[2] < y[1] * x[2]

RatMul(x, y) == Frac(x[1] * y[1], x[2] * y[2])

RECURSIVE IntPow(_, _)
IntPow(b, k) == IF k = 0 THEN 1 ELSE b * IntPow(b, k - 1)

\* The exact k-th root of x (the factors used have one).
IntRoot(x, k) == CHOOSE r \in 0..x : IntPow(r, k) = x

\* f ** e for a positive rational f and a rational exponent e.
RatPow(f, e) ==
    LET up == <<IntPow(IntRoot(f[1], e[2]), Abs(e[1])),
                IntPow(IntRoot(f[2], e[2]), Abs(e[1]))>>
    IN  IF e[1] >= 0 THEN Frac(up[1], up[2]) ELSE Frac(up[2], up[1])

\* ------------------------------------------------ renderer: configuration
\* Largest appearance identifier in the training data.
MaxAppearanceId == 2
\* Largest number of images in the training data.
MaxImages == 2
\* Largest row count of a saved embedding table.
MaxSavedRows == 3
\* Scheduler steps explored per group.
MaxSchedulerSteps == 4
\* Step numbers handed to training_forward.
MaxForwardStep == 3
\* Model allocations (setup with a module, load_state_dict) explored.
MaxAllocations == 3

\* Learning rates are in units of 1e-6 (2000 is the default 2e-3).
NAppearancesChoices == {-1, 0, 2}
EmbeddingLrInits == {2000}
LrInits == {1000}
FinalFactors == {<<1, 4>>, <<1, 100>>}
MaxStepsChoices == {1, 2}
WarmUps == {0, 2}

RendererConfigs ==
    [n_appearances : NAppearancesChoices,
     embedding_lr_init : EmbeddingLrInits,
     embedding_lr_final_factor : FinalFactors,
     lr_init : LrInits,
     lr_final_factor : FinalFactors,
     max_steps : MaxStepsChoices,
     warm_up : WarmUps]

\* ModelConfig() and OptimizationConfig() as declared, scaled down.
DefaultRendererConfig ==
    [n_appearances |-> -1,
     embedding_lr_init |-> 2000,
     embedding_lr_final_factor |-> <<1, 4>>,
     lr_init |-> 1000,
     lr_final_factor |-> <<1, 4>>,
     max_steps |-> 2,
     warm_up |-> 2]

\* dataparser_outputs.appearance_group_ids: None ({}), or the identifiers
\* (the i[0] of every value of the dict) in iteration order ({ids}).
IdSeqs == UNION {[1..k -> 0..MaxAppearanceId] : k \in 0..MaxImages}

AppearanceGroupIds == {{}} \cup {{q} : q \in IdSeqs}

\* --------------------------------------------------- renderer: table size
\* The loop over appearance_group_ids.values(), from position i on.
RECURSIVE MaxInputIdFrom(_, _, _)
MaxInputIdFrom(ids, i, max_input_id) ==
    IF i > Len(ids)
    THEN max_input_id
    ELSE MaxInputIdFrom(ids, i + 1,
                        IF ids[i] > max_input_id THEN ids[i] ELSE max_input_id)

\* `max_input_id = 0; if ids is not None: for i in values: ...`
MaxInputId(group_ids) ==
    IF group_ids = {}
    THEN 0
    ELSE LET ids == CHOOSE q \in group_ids : TRUE
         IN  MaxInputIdFrom(ids, 1, 0)

\* Mutant: only a negative size counts as unset.
NeedsDerivationNegativeOnly(n) == n < 0

\* `if self.config.model.n_appearances <= 0`
NeedsDerivation(n) == n <= 0

\* Model(self.config.model): nn.Embedding(num_embeddings=n_appearances, ...)
SetupModel(c) == {[n_rows |-> c.n_appearances]}

\* setup(stage, lightning_module)
Setup ==
    /\ \E has_module \in BOOLEAN, group_ids \in AppearanceGroupIds :
          IF has_module
          THEN LET derive == NeedsDerivation(config.n_appearances)
                   n_appearances == MaxInputId(group_ids) + 1
                   c == IF derive
                        THEN [config EXCEPT !.n_appearances = n_appearances]
                        ELSE config
               IN  /\ sizing.allocations < MaxAllocations
                   /\ config' = c
                   /\ model' = SetupModel(c)
                   /\ sizing' =
                         [sizing EXCEPT
                             !.allocations = @ + 1,
                             !.derived =
                                 IF derive
                                 THEN Append(@, [group_ids |-> group_ids,
                                                 size |-> n_appearances])
                                 ELSE @]
          ELSE UNCHANGED <<config, model, sizing>>
    /\ UNCHANGED <<trainVars, lossVars, parserVars, embedding_scheduler,
                   network_scheduler, last_forward, setup_error>>

\* load_state_dict(state_dict): the saved table's row count sizes the model.
LoadStateDict ==
    /\ \E rows \in 1..MaxSavedRows :
          /\ sizing.allocations < MaxAllocations
          /\ config' = [config EXCEPT !.n_appearances = rows]
          /\ model' = SetupModel(config')
          /\ sizing' = [sizing EXCEPT !.allocations = @ + 1, !.restored = {rows}]
    /\ UNCHANGED <<trainVars, lossVars, parserVars, embedding_scheduler,
                   network_scheduler, last_forward, setup_error>>

\* ----------------------------------------------------- renderer: schedules
\* `min(max(iter - warm_up, 0) / max_steps, 1)`
DecayExponent(iter, warm_up, max_steps) ==
    LET x == Frac(IF iter - warm_up > 0 THEN iter - warm_up ELSE 0, max_steps)
    IN  IF RatLess(<<1, 1>>, x) THEN <<1, 1>> ELSE x

\* `max(iter - warm_up, 0) / max_steps`: Python's division raises
\* ZeroDivisionError on a zero divisor.
LambdaRaises(iter, max_steps, warm_up) == max_steps = 0

\* `lr_lambda = lambda iter: lr_final_factor ** min(max(iter - warm_up, 0) / max_steps, 1)`
LrLambda(iter, lr_final_factor, max_steps, warm_up) ==
    RatPow(lr_final_factor, DecayExponent(iter, warm_up, max_steps))

\* LambdaLR: the group's rate is its initial rate times lr_lambda(last_epoch).
ScheduledLr(sch, iter) ==
    RatMul(<<sch.lr_init, 1>>,
           LrLambda(iter, sch.lr_final_factor, sch.max_steps, sch.warm_up))

\* _create_optimizer_and_scheduler: Adam(lr=lr_init) and a LambdaLR, whose
\* construction evaluates the lambda at iter 0.
CreateOptimizerAndScheduler(name, lr_init, lr_final_factor, max_steps, warm_up) ==
    LET sch == [name |-> name, lr_init |-> lr_init,
                lr_final_factor |-> lr_final_factor,
                max_steps |-> max_steps, warm_up |-> warm_up]
    IN  [sch |-> sch, last_epoch |-> 0, lr |-> ScheduledLr(sch, 0)]

\* training_setup: the arguments of the embedding group's scheduler.
EmbeddingSchedulerOf(c) ==
    CreateOptimizerAndScheduler("embedding", c.embedding_lr_init,
                                c.lr_final_factor, c.max_steps, c.warm_up)

\* training_setup: the arguments of the network group's scheduler.
NetworkSchedulerOf(c) ==
    CreateOptimizerAndScheduler("embedding_network", c.lr_init,
                                c.lr_final_factor, c.max_steps, c.warm_up)

\* training_setup(module): needs the allocated model's parameters.
\* The embedding group's LambdaLR is constructed first; an exception of its
\* first evaluation leaves training_setup, nothing is returned.
TrainingSetup ==
    /\ model # {}
    /\ IF LambdaRaises(0, config.max_steps, config.warm_up)
       THEN /\ setup_error' = {"ZeroDivisionError"}
            /\ UNCHANGED <<embedding_scheduler, network_scheduler>>
       ELSE /\ embedding_scheduler' = {EmbeddingSchedulerOf(config)}
            /\ network_scheduler' = {NetworkSchedulerOf(config)}
            /\ setup_error' = {}
    /\ UNCHANGED <<trainVars, lossVars, parserVars, config, model, sizing, last_forward>>

\* LambdaLR.step(): last_epoch += 1, the rate is recomputed.
StepScheduler(s) ==
    [s EXCEPT !.last_epoch = @ + 1, !.lr = ScheduledLr(s.sch, s.last_epoch + 1)]

\* embedding_scheduler.step()
EmbeddingSchedulerStep ==
    /\ \E s \in embedding_scheduler :
          /\ s.last_epoch < MaxSchedulerSteps
          /\ embedding_scheduler' = {StepScheduler(s)}
    /\ UNCHANGED <<trainVars, lossVars, parserVars, config, model, sizing,
                   network_scheduler, last_forward, setup_error>>

\* network_scheduler.step()
NetworkSchedulerStep ==
    /\ \E s \in network_scheduler :
          /\ s.last_epoch < MaxSchedulerSteps
          /\ network_scheduler' = {StepScheduler(s)}
    /\ UNCHANGED <<trainVars, lossVars, parserVars, config, model, sizing,
                   embedding_scheduler, last_forward, setup_error>>

\* ------------------------------------------------------- renderer: colours
\* Mutant: the warm-up window includes step warm_up.
WarmUpFlagInclusive(step) == step <= config.warm_up

\* training_forward: `warm_up=step < self.config.optimization.warm_up`
WarmUpFlag(step) == step < config.warm_up

\* get_rgbs: with kwargs warm_up the clamped SH colour is returned at once;
\* otherwise self.model(...) is called and base + offsets is clamped to [0, 1].
GetRgbs(warm_up) ==
    IF warm_up
    THEN [appearance_model_called |-> FALSE, colour |-> "clamp_min(sh + 0.5)"]
    ELSE [appearance_model_called |-> TRUE,
          colour |-> "clamp(sh + 0.5 + offsets)"]

\* training_forward(step, ...): forward hands its kwargs to get_rgbs.
TrainingForward ==
    /\ model # {}
    /\ \E step \in 0..MaxForwardStep :
          LET rgbs == GetRgbs(WarmUpFlag(step))
          IN  last_forward' =
                 {[step |-> step,
                   appearance_model_called |-> rgbs.appearance_model_called,
                   colour |-> rgbs.colour]}
    /\ UNCHANGED <<trainVars, lossVars, parserVars, config, model, sizing,
                   embedding_scheduler, network_scheduler, setup_error>>

\* -------------------------------------------------- training_step: loss
\* Pixels per image.
MaxPixels == 2
\* Pixel values are the levels 0..MaxLevel.
MaxLevel == 2

Images == [1..MaxPixels -> 0..MaxLevel]

\* masked_pixels: None ({}) or a boolean mask ({mask}).
MaskedPixels == {{}} \cup {{m} : m \in [1..MaxPixels -> BOOLEAN]}

\* Mutant: the unmasked pixels are copied instead.
CopyMaskedPixelsInverted(gt_image, masked_pixels, image) ==
    IF masked_pixels = {}
    THEN gt_image
    ELSE LET m == CHOOSE x \in masked_pixels : TRUE
         IN  [i \in DOMAIN gt_image |-> IF m[i] THEN gt_image[i] ELSE image[i]]

\* `if masked_pixels is not None: gt_image[masked_pixels] = image.detach()[masked_pixels]`
CopyMaskedPixels(gt_image, masked_pixels, image) ==
    IF masked_pixels = {}
    THEN gt_image
    ELSE LET m == CHOOSE x \in masked_pixels : TRUE
         IN  [i \in DOMAIN gt_image |-> IF m[i] THEN image[i] ELSE gt_image[i]]

RECURSIVE SumAbsDiff(_, _, _)
SumAbsDiff(a, b, i) ==
    IF i > Len(a) THEN 0 ELSE Abs(a[i] - b[i]) + SumAbsDiff(a, b, i + 1)

\* `torch.abs(outputs["render"] - gt_image).mean()`
L1Loss(render, gt_image) == Frac(SumAbsDiff(render, gt_image, 1), Len(render))

\* The loss computation of training_step on one batch and one render.
ComputeLoss ==
    /\ loss_out = {}
    /\ LET gt == CopyMaskedPixels(loss_in.gt_image, loss_in.masked_pixels,
                                  loss_in.render)
       IN  loss_out' = {[gt_image |-> gt, l1_loss |-> L1Loss(loss_in.render, gt)]}
    /\ UNCHANGED <<trainVars, rendererVars, parserVars, loss_in>>

\* ------------------------------------------- colmap dataparser: get_outputs
\* Images of a sparse model.
MaxParseImages == 2
\* Ranks are 0..MaxRank.
MaxRank == 1

\* Camera models of a sparse model; OPENCV stands for every distorted one.
CameraModels == {"SIMPLE_PINHOLE", "PINHOLE", "OPENCV"}

\* images.bin: the camera model of each image, in image-id order.
ImageModelSeqs == UNION {[1..k -> CameraModels] : k \in 1..MaxParseImages}

\* The ranks of a run: 0 .. world_size - 1.
Worlds == {0..k : k \in 0..MaxRank}

\* Mutant: every camera model is taken.
SupportedModelAny(m) == TRUE

\* `if intrinsics.model == "SIMPLE_PINHOLE": ... elif intrinsics.model ==
\* "PINHOLE": ... else: assert False`
SupportedModel(m) == m = "SIMPLE_PINHOLE" \/ m = "PINHOLE"

\* `os.path.exists(ply_path)`
PlyExists(fs) == fs.final # "absent"

\* Mutant: the conversion writes points3D.ply itself.
PlyConvertPathFinal == "final"

\* `convert_points_to_ply(ply_path + ".tmp", ...)`: the file written.
PlyConvertPath == "tmp"

\* store_ply(path, xyz, rgb): the file is created, then filled.
StorePly(fs, path, stage) ==
    [fs EXCEPT ![path] = IF stage = "created" THEN "partial" ELSE "complete"]

\* fetch_ply(path): what a reader finds at the path.
FetchPly(fs, path) == fs[path]

\* os.rename(ply_path + ".tmp", ply_path)
OsRename(fs, src, dst) ==
    IF src = dst THEN fs ELSE [fs EXCEPT ![dst] = fs[src], ![src] = "absent"]

\* `for i in range(len(image_name_list)): if i % eval_step == 0: validation
\* else: training`, or every image and [0] when eval_step <= 1 (0-based).
ValidationSetIndices(n, eval_step) ==
    IF eval_step > 1
    THEN {i \in 0..(n - 1) : i % eval_step = 0}
    ELSE {0}

TrainingSetIndices(n, eval_step) ==
    IF eval_step > 1
    THEN {i \in 0..(n - 1) : i % eval_step # 0}
    ELSE 0..(n - 1)

\* `while os.path.exists(ply_path) is False:` and the branch on global_rank.
CheckPly(r) ==
    /\ r \in parser_in.world
    /\ rank_pc[r] = "check"
    /\ rank_pc' = [rank_pc EXCEPT ![r] =
          IF PlyExists(points3D) THEN "parse"
          ELSE IF r = 0 THEN "convert"
          ELSE "sleep"]
    /\ UNCHANGED <<trainVars, rendererVars, lossVars,
                   parser_in, points3D, parse_idx, ply_read, outputs>>

\* Rank 0: read_points3D_binary, then store_ply opens its file and starts to
\* write; it may fail before the file exists.
ConvertOpen(r) ==
    /\ r \in parser_in.world
    /\ rank_pc[r] = "convert"
    /\ \E created \in BOOLEAN :
          /\ points3D' = IF created
                         THEN StorePly(points3D, PlyConvertPath, "created")
                         ELSE points3D
          /\ rank_pc' = [rank_pc EXCEPT ![r] =
                IF created THEN "convert_write" ELSE "convert_error"]
    /\ UNCHANGED <<trainVars, rendererVars, lossVars,
                   parser_in, parse_idx, ply_read, outputs>>

\* Rank 0: store_ply writes the rest of the file, or fails half-way.
ConvertWrite(r) ==
    /\ r \in parser_in.world
    /\ rank_pc[r] = "convert_write"
    /\ \E ok \in BOOLEAN :
          /\ points3D' = IF ok
                         THEN StorePly(points3D, PlyConvertPath, "written")
                         ELSE points3D
          /\ rank_pc' = [rank_pc EXCEPT ![r] =
                IF ok THEN "rename" ELSE "convert_error"]
    /\ UNCHANGED <<trainVars, rendererVars, lossVars,
                   parser_in, parse_idx, ply_read, outputs>>

\* Rank 0: `os.rename(ply_path + ".tmp", ply_path); break`
RenamePly(r) ==
    /\ r \in parser_in.world
    /\ rank_pc[r] = "rename"
    /\ IF points3D.tmp = "absent"
       THEN /\ rank_pc' = [rank_pc EXCEPT ![r] = "convert_error"]
            /\ UNCHANGED points3D
       ELSE /\ points3D' = OsRename(points3D, "tmp", "final")
            /\ rank_pc' = [rank_pc EXCEPT ![r] = "parse"]
    /\ UNCHANGED <<trainVars, rendererVars, lossVars,
                   parser_in, parse_idx, ply_read, outputs>>

\* Other ranks: `time.sleep(1)`, back to the loop condition.
WaitPly(r) ==
    /\ r \in parser_in.world
    /\ rank_pc[r] = "sleep"
    /\ rank_pc' = [rank_pc EXCEPT ![r] = "check"]
    /\ UNCHANGED <<trainVars, rendererVars, lossVars,
                   parser_in, points3D, parse_idx, ply_read, outputs>>

\* One iteration of `for idx, key in enumerate(images)`: the image's values
\* are appended to the lists, or the assertion fails.
ParseImage(r) ==
    /\ r \in parser_in.world
    /\ rank_pc[r] = "parse"
    /\ LET n == Len(parser_in.models)
           m == parser_in.models[parse_idx[r] + 1]
       IN  IF SupportedModel(m)
           THEN /\ parse_idx' = [parse_idx EXCEPT ![r] = @ + 1]
                /\ rank_pc' = [rank_pc EXCEPT ![r] =
                      IF parse_idx[r] + 1 = n THEN "return" ELSE "parse"]
           ELSE /\ rank_pc' = [rank_pc EXCEPT ![r] = "assertion_error"]
                /\ UNCHANGED parse_idx
    /\ UNCHANGED <<trainVars, rendererVars, lossVars,
                   parser_in, points3D, ply_read, outputs>>

\* The split and `return DataParserOutputs(..., point_cloud=fetch_ply(ply_path))`.
ReturnOutputs(r) ==
    /\ r \in parser_in.world
    /\ rank_pc[r] = "return"
    /\ ply_read' = [ply_read EXCEPT ![r] = {FetchPly(points3D, "final")}]
    /\ IF ~PlyExists(points3D)
       THEN /\ rank_pc' = [rank_pc EXCEPT ![r] = "fetch_error"]
            /\ UNCHANGED outputs
       ELSE /\ outputs' = [outputs EXCEPT ![r] =
                  {[train_set |-> TrainingSetIndices(parse_idx[r], parser_in.eval_step),
                    val_set |-> ValidationSetIndices(parse_idx[r], parser_in.eval_step),
                    point_cloud |-> FetchPly(points3D, "final")]}]
            /\ rank_pc' = [rank_pc EXCEPT ![r] = "returned"]
    /\ UNCHANGED <<trainVars, rendererVars, lossVars,
                   parser_in, points3D, parse_idx>>

\* One statement of one rank's get_outputs.
RankStep(r) ==
    \/ CheckPly(r)
    \/ ConvertOpen(r)
    \/ ConvertWrite(r)
    \/ RenamePly(r)
    \/ WaitPly(r)
    \/ ParseImage(r)
    \/ ReturnOutputs(r)

\* ---------------------------------------------------------- specifications
\* State after __init__, setup("fit") and configure_optimizers.
TrainInit(hs) ==
    /\ hparams \in hs
    /\ trainer_global_step = 0
    /\ global_step = 0
    /\ pc = "idle"
    /\ ops = <<>>
    /\ hooks = LightningRunStart
    /\ gaussians = InitialGaussians(hparams)
    /\ rendered = InitialGaussians(hparams)
    /\ written = {}
    /\ ply \in InitialPlyDirs(hparams)
    /\ densify_calls = {}
    /\ n_steps = 0
    /\ xyz_lr_step = 0
    /\ appearance_sched_epoch = 0

\* The renderer module after instantiate(): configured, nothing allocated.
RendererInit(cs) ==
    /\ config \in cs
    /\ model = {}
    /\ sizing = [configured |-> config.n_appearances, allocations |-> 0,
                 derived |-> <<>>, restored |-> {}]
    /\ embedding_scheduler = {}
    /\ network_scheduler = {}
    /\ last_forward = {}
    /\ setup_error = {}

\* A batch and a render, the loss not yet computed.
LossInit(renders, gts, masks) ==
    /\ loss_in \in [render : renders, gt_image : gts, masked_pixels : masks]
    /\ loss_out = {}

\* One black frame, unmasked.
NoLoss == LossInit({[i \in 1..MaxPixels |-> 0]}, {[i \in 1..MaxPixels |-> 0]}, {{}})

\* Every rank enters get_outputs; points3D.ply.tmp is absent.
ParserInit(model_seqs, eval_steps, worlds, finals) ==
    /\ parser_in \in [models : model_seqs, eval_step : eval_steps, world : worlds]
    /\ points3D \in [tmp : {"absent"}, final : finals]
    /\ rank_pc = [r \in parser_in.world |-> "check"]
    /\ parse_idx = [r \in parser_in.world |-> 0]
    /\ ply_read = [r \in parser_in.world |-> {}]
    /\ outputs = [r \in parser_in.world |-> {}]

\* One rank, one PINHOLE image, points3D.ply converted by an earlier run.
NoParser == ParserInit({<<"PINHOLE">>}, {1}, {{0}}, {"complete"})

\* A module just constructed, no training step run, nothing saved before.
NoTraining ==
    /\ TrainInit({CHOOSE h \in HParamsSH : TRUE})
    /\ ply = {}

\* The training loop.
Init ==
    /\ TrainInit(HParams)
    /\ RendererInit({DefaultRendererConfig})
    /\ NoLoss
    /\ NoParser

Next == TrainingStep(MaxStep)

Spec == Init /\ [][Next]_vars

\* The training loop over two SH escalation points.
InitSH ==
    /\ TrainInit(HParamsSH)
    /\ RendererInit({DefaultRendererConfig})
    /\ NoLoss
    /\ NoParser

NextSH == TrainingStep(MaxStepSH)

SpecSH == InitSH /\ [][NextSH]_vars

\* The training loop with density control around an SH escalation point.
InitFrame ==
    /\ TrainInit(HParamsFrame)
    /\ RendererInit({DefaultRendererConfig})
    /\ NoLoss
    /\ NoParser

NextFrame == TrainingStep(MaxStepFrame)

SpecFrame == InitFrame /\ [][NextFrame]_vars

\* Sizing of the embedding table: setup and restore, in any order.
SizingConfigs ==
    {c \in RendererConfigs :
        /\ c.embedding_lr_final_factor = DefaultRendererConfig.embedding_lr_final_factor
        /\ c.lr_final_factor = DefaultRendererConfig.lr_final_factor
        /\ c.max_steps = DefaultRendererConfig.max_steps
        /\ c.warm_up = DefaultRendererConfig.warm_up}

InitSizing ==
    /\ NoTraining
    /\ RendererInit(SizingConfigs)
    /\ NoLoss
    /\ NoParser

NextSizing ==
    \/ Setup
    \/ LoadStateDict

SpecSizing == InitSizing /\ [][NextSizing]_vars

\* Training with the renderer: the module has been set up with a configured
\* table size; schedules are created and stepped, frames are rendered.
TrainingConfigs == {c \in RendererConfigs : c.n_appearances > 0}

InitRendererTraining ==
    /\ NoTraining
    /\ config \in TrainingConfigs
    /\ model = SetupModel(config)
    /\ sizing = [configured |-> config.n_appearances, allocations |-> 1,
                 derived |-> <<>>, restored |-> {}]
    /\ embedding_scheduler = {}
    /\ network_scheduler = {}
    /\ last_forward = {}
    /\ setup_error = {}
    /\ NoLoss
    /\ NoParser

NextRendererTraining ==
    \/ TrainingSetup
    \/ EmbeddingSchedulerStep
    \/ NetworkSchedulerStep
    \/ TrainingForward

SpecRendererTraining == InitRendererTraining /\ [][NextRendererTraining]_vars

\* The loss of one training step, over every batch and render.
InitLoss ==
    /\ NoTraining
    /\ RendererInit({DefaultRendererConfig})
    /\ LossInit(Images, Images, MaskedPixels)
    /\ NoParser

NextLoss == ComputeLoss

SpecLoss == InitLoss /\ [][NextLoss]_vars

\* Training with the renderer under an optimization config whose max_steps is
\* zero or negative.
MisconfiguredMaxSteps == {-2, -1, 0}

MisconfiguredConfigs ==
    [n_appearances : {2},
     embedding_lr_init : EmbeddingLrInits,
     embedding_lr_final_factor : FinalFactors,
     lr_init : LrInits,
     lr_final_factor : {<<1, 4>>},
     max_steps : MisconfiguredMaxSteps,
     warm_up : WarmUps]

InitMisconfigured ==
    /\ NoTraining
    /\ config \in MisconfiguredConfigs
    /\ model = SetupModel(config)
    /\ sizing = [configured |-> config.n_appearances, allocations |-> 1,
                 derived |-> <<>>, restored |-> {}]
    /\ embedding_scheduler = {}
    /\ network_scheduler = {}
    /\ last_forward = {}
    /\ setup_error = {}
    /\ NoLoss
    /\ NoParser

SpecMisconfigured == InitMisconfigured /\ [][NextRendererTraining]_vars

\* get_outputs on every rank of a run, over every sparse model.
InitParser ==
    /\ NoTraining
    /\ RendererInit({DefaultRendererConfig})
    /\ NoLoss
    /\ ParserInit(ImageModelSeqs, EvalSteps, Worlds, {"absent", "complete"})

NextParser == \E r \in 0..MaxRank : RankStep(r)

SpecParser == InitParser /\ [][NextParser]_vars

\* The same, every rank's process keeps running.
SpecParserFair == SpecParser /\ \A r \in 0..MaxRank : WF_vars(RankStep(r))

\* ------------------------------------------------------- claims: helpers
\* The running (or last completed) step has executed op.
Did(op) == \E i \in 1..Len(ops) : ops[i] = op

\* How often the running (or last completed) step has executed op.
Count(op) == Cardinality({i \in 1..Len(ops) : ops[i] = op})

\* Every occurrence of a precedes every occurrence of b.
Precedes(a, b) ==
    \A i, j \in 1..Len(ops) : (ops[i] = a /\ ops[j] = b) => i < j

\* The density-control block of the running step is behind us.
PastDensity ==
    \/ pc \in {"gaussian_step", "appearance_step", "update_lr", "scheduler_step"}
    \/ (pc = "idle" /\ n_steps > 0)

\* A training step has run to its end.
StepCompleted == pc = "idle" /\ n_steps > 0

\* Position of an operation in the order C1 states.
OrderRank(op) ==
    CASE op = "oneupSHdegree" -> 0
      [] op = "render" -> 1
      [] op = "loss" -> 2
      [] op \in {"zero_grad_gaussian", "zero_grad_appearance"} -> 3
      [] op = "backward" -> 4
      [] op = "save" -> 5
      [] op = "stats" -> 6
      [] op = "densify_and_prune" -> 7
      [] op = "reset_opacity" -> 8
      [] op \in {"gaussian_step", "appearance_step"} -> 9
      [] OTHER -> 10

\* ---------------------------------------------------------------- claims
\* C1: within a training step the operations occur in the order render, loss,
\* zero-grad of both optimizers, one backward pass, save (only at a save
\* point), statistics update, grow/prune, opacity reset, optimizer steps; and
\* the file a save writes holds the primitive set exactly as it was rendered.
C1_OrderAndSnapshot ==
    /\ \A i, j \in 1..Len(ops) :
          i < j => OrderRank(ops[i]) <= OrderRank(ops[j])
    /\ Count("backward") <= 1
    /\ Did("save") => global_step \in hparams.save_iterations
    /\ (PastDensity /\ global_step \in hparams.save_iterations) => Did("save")
    /\ StepCompleted =>
          \A op \in {"render", "loss", "zero_grad_gaussian", "zero_grad_appearance",
                     "backward", "gaussian_step", "appearance_step"} :
             Count(op) = 1
    /\ \A f \in written : f.content = rendered

\* C1 witness: a completed step that saved, then grew/pruned, reset the
\* opacities and stepped the optimizers, so the set no longer is what was saved.
C1_Witness ==
    /\ StepCompleted
    /\ written # {}
    /\ Did("densify_and_prune")
    /\ Did("reset_opacity")
    /\ gaussians.n # rendered.n
    /\ gaussians.version # rendered.version

\* C2: statistics are updated iff s < densify_until_iter; grow/prune runs iff
\* s < densify_until_iter and s > densify_from_iter and
\* s % densification_interval = 0; from densify_until_iter on no density
\* control operation occurs.
C2_DensityWindow ==
    LET s == global_step
        h == hparams
    IN  /\ PastDensity =>
              /\ Did("stats") <=> s < h.densify_until_iter
              /\ Did("densify_and_prune") <=>
                    (/\ s < h.densify_until_iter
                     /\ s > h.densify_from_iter
                     /\ s % h.densification_interval = 0)
              /\ Count("stats") <= 1
              /\ Count("densify_and_prune") <= 1
        /\ s >= h.densify_until_iter =>
              /\ ~Did("stats")
              /\ ~Did("densify_and_prune")
              /\ ~Did("reset_opacity")

\* C2 witness: the last step of the window has grown/pruned.
C2_Witness ==
    /\ PastDensity
    /\ global_step = hparams.densify_until_iter - 1
    /\ Did("stats")
    /\ Did("densify_and_prune")

\* C3: inside the window reset_opacity runs in step s iff
\* s % opacity_reset_interval = 0, or the background is pure white and
\* s = densify_from_iter.
C3_OpacityReset ==
    LET s == global_step
        h == hparams
        white == /\ h.background_color[1] = 1
                 /\ h.background_color[2] = 1
                 /\ h.background_color[3] = 1
    IN  (PastDensity /\ s < h.densify_until_iter) =>
            (Did("reset_opacity") <=>
                \/ s % h.opacity_reset_interval = 0
                \/ (white /\ s = h.densify_from_iter))

\* C3 witness: white background, step densify_from_iter is no multiple of
\* opacity_reset_interval, and the opacities were reset.
C3_Witness ==
    /\ PastDensity
    /\ hparams.background_color = <<1, 1, 1>>
    /\ global_step = hparams.densify_from_iter
    /\ global_step % hparams.opacity_reset_interval # 0
    /\ Did("reset_opacity")
    /\ gaussians.opacity_at_floor

\* C4: a grow/prune call at step s receives the screen-radius threshold (20)
\* iff s > opacity_reset_interval: none at s <= opacity_reset_interval, and a
\* threshold only after a multiple of opacity_reset_interval has been passed.
C4_SizeThreshold ==
    \A c \in densify_calls :
        /\ c.step <= hparams.opacity_reset_interval => c.size_threshold = {}
        /\ c.step > hparams.opacity_reset_interval => c.size_threshold = {20}
        /\ c.size_threshold # {} =>
              \E b \in 1..(c.step - 1) : b % hparams.opacity_reset_interval = 0

\* C4 witness: grow/prune ran right after the first reset boundary, with the
\* threshold.
C4_Witness ==
    \E c \in densify_calls :
        /\ c.step = hparams.opacity_reset_interval + 1
        /\ c.size_threshold # {}

\* C5 as stated: both optimizer steps, then the optimizer-level schedule, and
\* only then update_learning_rate.
C5_SchedulerBeforeUpdateLr ==
    /\ Precedes("gaussian_step", "appearance_scheduler_step")
    /\ Precedes("appearance_step", "appearance_scheduler_step")
    /\ Precedes("gaussian_step", "update_learning_rate")
    /\ Precedes("appearance_step", "update_learning_rate")
    /\ Precedes("appearance_scheduler_step", "update_learning_rate")

\* C5 amended: both optimizers are stepped first, then
\* update_learning_rate(step) is applied, and the one optimizer-level schedule
\* (the appearance optimizer's) is stepped last, once per training step.
C5_UpdateLrBeforeScheduler ==
    /\ Precedes("gaussian_step", "appearance_step")
    /\ Precedes("appearance_step", "update_learning_rate")
    /\ Precedes("update_learning_rate", "appearance_scheduler_step")
    /\ Did("update_learning_rate") =>
          (Did("gaussian_step") /\ Did("appearance_step")
           /\ xyz_lr_step = global_step)
    /\ Did("appearance_scheduler_step") => Did("update_learning_rate")
    /\ StepCompleted =>
          /\ Count("update_learning_rate") = 1
          /\ Count("appearance_scheduler_step") = 1
          /\ appearance_sched_epoch = n_steps

\* C5 witness: the second step has applied all four.
C5_Witness ==
    /\ StepCompleted
    /\ n_steps = 2
    /\ Did("appearance_scheduler_step")
    /\ Did("update_learning_rate")

\* C6: the k-th training step uses step number k (1 on the first step, never
\* 0), although two optimizers are stepped in every training step.
C6_StepNumber ==
    /\ n_steps > 0 => (global_step = n_steps /\ global_step >= 1)
    /\ pc = "idle" => trainer_global_step = n_steps

\* C6 witness: the third step is running after two complete steps (four
\* optimizer steps).
C6_Witness ==
    /\ n_steps = 3
    /\ pc = "render"
    /\ appearance_sched_epoch = 2

\* C7: the active SH degree goes up by one at the start of exactly the steps
\* whose number is a multiple of 1000 (until the maximum degree is reached),
\* never goes down and never exceeds the maximum degree.
C7_SHDegree ==
    LET escalated == IF pc = "sh" THEN global_step - 1 ELSE global_step
        due == escalated \div 1000
    IN  /\ gaussians.active_sh_degree =
              (IF due < gaussians.max_sh_degree THEN due
               ELSE gaussians.max_sh_degree)
        /\ gaussians.active_sh_degree <= gaussians.max_sh_degree
        /\ Did("oneupSHdegree") <=> (pc # "sh" /\ n_steps > 0
                                       /\ global_step % 1000 = 0)

\* C7 never-decreases, as a step property.
C7_Monotone ==
    [][gaussians'.active_sh_degree >= gaussians.active_sh_degree]_vars

\* C7 witness: step 2000 asked for one more degree at the maximum.
C7_Witness ==
    /\ global_step = 2000
    /\ Did("oneupSHdegree")
    /\ gaussians.max_sh_degree = 1
    /\ gaussians.active_sh_degree = 1

\* C8: training_forward at step s calls the appearance model iff s >= warm_up;
\* below warm_up the colour is the clamped SH base colour and the model is not
\* called.
C8_WarmUpSwitch ==
    \A f \in last_forward :
        /\ f.appearance_model_called <=> f.step >= config.warm_up
        /\ f.step < config.warm_up =>
              (f.colour = "clamp_min(sh + 0.5)" /\ ~f.appearance_model_called)
        /\ f.step >= config.warm_up => f.colour = "clamp(sh + 0.5 + offsets)"

\* C8 witness: a frame rendered at step warm_up (> 0) went through the
\* appearance model.
C8_Witness ==
    \E f \in last_forward :
        /\ config.warm_up > 0
        /\ f.step = config.warm_up
        /\ f.appearance_model_called

\* The largest identifier of the data, 0 when there are none.
LargestId(group_ids) ==
    LET present == UNION {{q[i] : i \in 1..Len(q)} : q \in group_ids}
    IN  IF present = {} THEN 0
        ELSE CHOOSE m \in present : \A x \in present : x <= m

\* C9: the allocated table has the saved table's rows after a restore;
\* otherwise the configured n_appearances when > 0; otherwise max_id + 1 of the
\* training data.  The size is derived from the data at most once, no later
\* than the first allocation, and a further setup does not change it.
C9_TableRows ==
    /\ Len(sizing.derived) <= 1
    /\ Len(sizing.derived) = 1 =>
          /\ sizing.configured <= 0
          /\ sizing.derived[1].size = LargestId(sizing.derived[1].group_ids) + 1
    /\ (model # {} /\ sizing.restored = {} /\ sizing.configured <= 0) =>
          Len(sizing.derived) = 1
    /\ model = {} => sizing.derived = <<>>
    /\ \A m \in model :
          /\ sizing.restored # {} => m.n_rows \in sizing.restored
          /\ (sizing.restored = {} /\ sizing.configured > 0) =>
                m.n_rows = sizing.configured
          /\ (sizing.restored = {} /\ sizing.configured <= 0) =>
                m.n_rows = sizing.derived[1].size
          /\ m.n_rows = config.n_appearances

\* C9 witness: setup ran more than once on an unset size, the table has the
\* max_id + 1 = 3 rows derived by the first one.
C9_Witness ==
    /\ sizing.allocations >= 2
    /\ sizing.restored = {}
    /\ sizing.configured <= 0
    /\ Len(sizing.derived) = 1
    /\ model = {[n_rows |-> 3]}

\* lr_init * final_factor ^ clamp((t - warm_up) / max_steps, 0, 1)
ClaimedRate(lr_init, final_factor, t) ==
    LET e == IF t <= config.warm_up THEN <<0, 1>>
             ELSE IF t >= config.warm_up + config.max_steps THEN <<1, 1>>
             ELSE Frac(t - config.warm_up, config.max_steps)
    IN  RatMul(<<lr_init, 1>>, RatPow(final_factor, e))

\* C10: each group decays with its own initial rate and its own final factor:
\* the embedding group's rate at scheduler step t is embedding_lr_init *
\* embedding_lr_final_factor ^ clamp((t - warm_up)/max_steps, 0, 1), the
\* network group's is lr_init * lr_final_factor ^ clamp(...).
C10_PerGroupRates ==
    /\ \A s \in embedding_scheduler :
          s.lr = ClaimedRate(config.embedding_lr_init,
                             config.embedding_lr_final_factor, s.last_epoch)
    /\ \A s \in network_scheduler :
          s.lr = ClaimedRate(config.lr_init, config.lr_final_factor, s.last_epoch)

\* What the code does instead: both groups decay with lr_final_factor.
C10_AsCoded ==
    /\ \A s \in embedding_scheduler :
          s.lr = ClaimedRate(config.embedding_lr_init, config.lr_final_factor,
                             s.last_epoch)
    /\ \A s \in network_scheduler :
          s.lr = ClaimedRate(config.lr_init, config.lr_final_factor, s.last_epoch)

\* C11: with every pixel masked the L1 loss is exactly zero whatever was
\* rendered; a masked ground-truth pixel takes the rendered value, an unmasked
\* one keeps its own.
C11_MaskedLoss ==
    \A o \in loss_out :
        /\ loss_in.masked_pixels = {} => o.gt_image = loss_in.gt_image
        /\ \A m \in loss_in.masked_pixels :
              /\ \A i \in 1..Len(loss_in.gt_image) :
                    o.gt_image[i] = IF m[i] THEN loss_in.render[i]
                                    ELSE loss_in.gt_image[i]
              /\ (\A i \in 1..Len(m) : m[i]) => o.l1_loss = <<0, 1>>

\* C11 witness: a fully masked image whose ground truth differs from the
\* render in every pixel, loss computed.
C11_Witness ==
    /\ loss_out # {}
    /\ \E m \in loss_in.masked_pixels : \A i \in 1..Len(m) : m[i]
    /\ \A i \in 1..Len(loss_in.render) : loss_in.render[i] # loss_in.gt_image[i]

\* The file on the output path of a label (none or one).
FinalAt(fs, label) == {f \in fs : f.iteration = label /\ ~f.tmp}

\* C12: a save never corrupts a checkpoint: no output path ever holds a
\* partially written file, and an output path changes only by the rename of a
\* completely written ".tmp" file, so a failed write leaves it as it was.
C12_AtomicSave ==
    /\ [](\A f \in ply : ~f.tmp => f.complete)
    /\ [][\A label \in 0..(MaxStep + 1) :
            FinalAt(ply', label) # FinalAt(ply, label) =>
               /\ pc = "rename"
               /\ \E t \in ply :
                     /\ t.tmp /\ t.complete /\ t.iteration = label
                     /\ FinalAt(ply', label) = {[t EXCEPT !.tmp = FALSE]}]_vars
    /\ [][pc' = "failed" =>
            \A label \in 0..(MaxStep + 1) :
               FinalAt(ply', label) = FinalAt(ply, label)]_vars

\* C12 witness: the write failed half-way while an earlier checkpoint sits on
\* the output path of the same iteration.
C12_Witness ==
    /\ pc = "failed"
    /\ \E t \in ply : t.tmp /\ ~t.complete /\ t.iteration = trainer_global_step
    /\ \E f \in ply :
          /\ ~f.tmp /\ f.complete /\ f.iteration = trainer_global_step
          /\ f.content # gaussians

\* C18: the file a save point s writes is point_cloud/iteration_s/...; saves
\* happen only on rank 0 and only at steps in save_iterations.
C18_LabelIsStep ==
    \A f \in written :
        /\ f.iteration = global_step
        /\ hparams.global_rank = 0
        /\ global_step \in hparams.save_iterations

\* What the code does: the label is trainer.global_step, one less than the
\* step number tested against save_iterations.
C18_AsCoded ==
    \A f \in written :
        /\ f.iteration = global_step - 1
        /\ hparams.global_rank = 0
        /\ global_step \in hparams.save_iterations

\* The lengths of the per-primitive auxiliary arrays of a primitive set.
AuxLengths(g) == {g.max_radii2D, g.xyz_gradient_accum, g.denom}

\* C13: at every point of a run, and so after any grow/prune call and at every
\* later statistics update, each auxiliary array (max screen radius, gradient
\* accumulator, accumulation count) is exactly as long as the primitive count;
\* the visibility mask and radii of the step's render have that length too, and
\* the statistics update never fails on a length mismatch.
C13_AuxLengths ==
    /\ AuxLengths(gaussians) = {gaussians.n}
    /\ pc = "density" => rendered.n = gaussians.n
    /\ pc # "index_error"

\* C13 witness: an earlier step's grow/prune changed the count, and this step
\* (without a grow/prune of its own) has made its statistics update.
C13_Witness ==
    /\ Did("stats")
    /\ ~Did("densify_and_prune")
    /\ gaussians.n = MaxPrims
    /\ rendered.n = MaxPrims
    /\ AuxLengths(gaussians) = {MaxPrims}

\* C14: the primitive count changes only through grow/prune: whatever changes
\* it is the density-control block of a step that calls densify_and_prune, and
\* a step that does not call it ends with the count its render saw, which is
\* the count it started with.
C14_CountFrame ==
    /\ [][gaussians'.n # gaussians.n =>
            /\ pc = "density"
            /\ InDensifyWindow(global_step) /\ ShouldDensify(global_step)
            /\ \E i \in 1..Len(ops') : ops'[i] = "densify_and_prune"]_vars
    /\ []((pc \notin {"sh", "render"} /\ n_steps > 0 /\ ~Did("densify_and_prune"))
            => gaussians.n = rendered.n)

\* C14 witness: a step that raised the SH degree, saved, updated the
\* statistics and reset the opacities, but did not grow/prune, has ended with
\* the count an earlier grow/prune left.
C14_Witness ==
    /\ StepCompleted
    /\ ~Did("densify_and_prune")
    /\ Did("oneupSHdegree") /\ gaussians.active_sh_degree = 1
    /\ Did("render") /\ Did("backward") /\ Did("stats") /\ Did("reset_opacity")
    /\ written # {}
    /\ xyz_lr_step = global_step /\ appearance_sched_epoch = global_step
    /\ gaussians.version > rendered.version
    /\ gaussians.n = MaxPrims /\ rendered.n = MaxPrims

\* The images whose camera model is neither SIMPLE_PINHOLE nor PINHOLE.
UnsupportedImages ==
    {i \in 1..Len(parser_in.models) :
        parser_in.models[i] \notin {"SIMPLE_PINHOLE", "PINHOLE"}}

\* C15: with an image of an unsupported camera model in the reconstruction,
\* get_outputs never returns anything on any rank; no image from the first
\* unsupported one on is ever taken, and the call ends in the failed assertion
\* with no outputs.
C15_UnsupportedAborts ==
    UnsupportedImages # {} =>
       \A r \in parser_in.world :
          /\ outputs[r] = {}
          /\ rank_pc[r] \notin {"return", "returned"}
          /\ \A i \in UnsupportedImages : parse_idx[r] < i

\* C15 witness: the second image is unsupported; the supported first one was
\* taken, then the assertion failed and nothing was returned.
C15_Witness ==
    /\ UnsupportedImages = {2}
    /\ rank_pc[0] = "assertion_error"
    /\ parse_idx[0] = 1
    /\ outputs[0] = {}

\* The ranks still in the loop `while os.path.exists(ply_path) is False`.
InWaitLoop(r) == rank_pc[r] \in {"check", "sleep"}

\* C17: of the ranks running get_outputs only rank 0 writes points3D.ply, to
\* the ".tmp" file first, which is renamed onto points3D.ply once completely
\* written; every other rank is past its wait loop only while points3D.ply
\* exists, no rank reads a missing or partially written points3D.ply, and once
\* the conversion is complete every waiting rank leaves the loop.
C17_PlyConversion ==
    /\ [](\A r \in parser_in.world :
            /\ r # 0 => rank_pc[r] \notin {"convert", "convert_write", "rename",
                                           "convert_error"}
            /\ (r # 0 /\ ~InWaitLoop(r)) => points3D.final = "complete"
            /\ ply_read[r] \subseteq {"complete"}
            /\ rank_pc[r] # "fetch_error"
            /\ outputs[r] # {} => \A o \in outputs[r] : o.point_cloud = "complete")
    /\ [][points3D' # points3D =>
            /\ rank_pc[0] \in {"convert", "convert_write", "rename"}
            /\ rank_pc'[0] # rank_pc[0]]_vars
    /\ [][points3D'.final # points3D.final =>
            /\ rank_pc[0] = "rename"
            /\ points3D.tmp = "complete"
            /\ points3D'.final = "complete"]_vars
    /\ (points3D.final = "complete") ~> (\A r \in parser_in.world : ~InWaitLoop(r))

\* C17 witness: rank 1 found no points3D.ply and sleeps in its wait loop; rank 0
\* has meanwhile converted and renamed the file.
C17_Witness ==
    /\ 1 \in parser_in.world
    /\ rank_pc[1] = "sleep"
    /\ points3D = [tmp |-> "absent", final |-> "complete"]
    /\ ~InWaitLoop(0)

\* C16: a schedule configured with max_steps <= 0 is rejected when the
\* optimizers and schedules are set up: setting up never ends in a division by
\* zero, and no schedule with max_steps <= 0 exists to be used for training.
C16_RejectsNonPositive ==
    config.max_steps <= 0 =>
       /\ setup_error # {"ZeroDivisionError"}
       /\ \A s \in embedding_scheduler \cup network_scheduler : s.sch.max_steps > 0

\* What the code does: max_steps = 0 ends training_setup in the division by
\* zero of the first schedule evaluation; a negative max_steps is accepted, and
\* the rate it yields is never below the initial rate.
C16_AsCoded ==
    /\ config.max_steps = 0 =>
          embedding_scheduler = {} /\ network_scheduler = {}
    /\ config.max_steps < 0 =>
          /\ setup_error = {}
          /\ \A s \in embedding_scheduler \cup network_scheduler :
                /\ s.sch.max_steps = config.max_steps
                /\ ~RatLess(s.lr, <<s.sch.lr_init, 1>>)

====
